---- MODULE Spec2Model ----
(***************************************************************************)
(* A model of pyRSD's bounded L-BFGS fitting driver                        *)
(* (pyRSD/rsdfit/solvers/lbfgs_solver.py) and of the theory layer it       *)
(* drives (pyRSD/rsdfit/theory/base.py): the parameter store with its      *)
(* affine rescaling, and the transfer pipeline that evaluates the model    *)
(* once per objective call.                                                *)
(*                                                                         *)
(* Numbers.  The code computes with numpy float64 arrays.  The model       *)
(* computes with exact rationals <<n, d>> (d > 0, lowest terms), so that   *)
(* (x - loc)/scale and x*scale + loc are computed, not assumed: what holds *)
(* here holds of the code up to floating-point rounding.                   *)
(***************************************************************************)
EXTENDS Integers, Sequences, FiniteSets, TLC

----------------------------------------------------------------------------
(* Rational arithmetic standing for numpy's elementwise float arithmetic.  *)

Abs(a) == IF a < 0 THEN -a ELSE a

RECURSIVE GCD(_, _)
GCD(a, b) == IF b = 0 THEN a ELSE GCD(b, a % b)

\* the rational n/d in lowest terms with a positive denominator (d # 0)
Rat(n, d) ==
    LET g == GCD(Abs(n), Abs(d))
        s == IF d < 0 THEN -1 ELSE 1
    IN  <<(s * n) \div g, (s * d) \div g>>

RInt(n) == <<n, 1>>
RAdd(a, b) == Rat(a[1] * b[2] + b[1] * a[2], a[2] * b[2])
RSub(a, b) == Rat(a[1] * b[2] - b[1] * a[2], a[2] * b[2])
RMul(a, b) == Rat(a[1] * b[1], a[2] * b[2])
\* a / b for b # 0
RDiv(a, b) == Rat(a[1] * b[2], a[2] * b[1])
RLe(a, b) == a[1] * b[2] <= b[1] * a[2]
RLt(a, b) == a[1] * b[2] < b[1] * a[2]

\* elementwise array arithmetic (numpy broadcasting over equal-length arrays)
VAdd(x, y) == [i \in DOMAIN x |-> RAdd(x[i], y[i])]
VSub(x, y) == [i \in DOMAIN x |-> RSub(x[i], y[i])]
VMul(x, y) == [i \in DOMAIN x |-> RMul(x[i], y[i])]
VDiv(x, y) == [i \in DOMAIN x |-> RDiv(x[i], y[i])]

----------------------------------------------------------------------------
(* Bounds of the model.                                                    *)

\* numerators and denominators of the rationals that inputs are drawn from
RatNum == 2
RatDen == 2

\* the rationals n/d, -RatNum <= n <= RatNum, 1 <= d <= RatDen
SmallRats == {Rat(n, d) : n \in (-RatNum)..RatNum, d \in 1..RatDen}

----------------------------------------------------------------------------
(* The state.  Each component below is exercised by a specification of its *)
(* own, in which the other components stay as constructed.                 *)

VARIABLES
    sLocs,      \* self.locs of the parameter set
    sScales,    \* self.scales of the parameter set (nonzero)
    sIn,        \* the vector handed to the first transform
    sMid,       \* the result of the first transform
    sOut,       \* the result of the second transform
    sStage      \* which transforms have been applied so far

scaleVars == <<sLocs, sScales, sIn, sMid, sOut, sStage>>

VARIABLES
    pValues,      \* the values of the free parameters (fit_params.free_values)
    pModel,       \* the parameter values that the model object of the
                  \* parameter set (fit_params.model) holds
    pOp,          \* the operation done last: "none", "set_free_parameters",
                  \* "setitem" or "model"
    pTheta,       \* its argument theta when it is set_free_parameters;
                  \* otherwise the free values
    pRet          \* its outcome, the value returned or the kind of the
                  \* exception raised: "none" before the first operation

paramVars == <<pValues, pModel, pTheta, pRet, pOp>>

VARIABLES
    tTransfers,    \* the transfers of the data configuration
    tStats,        \* how many statistics stat_ids names
    tModelParams,  \* whether model_params is given (is not None)
    tBuilt,        \* the callables built so far: "model", "grad"
    tGrid,         \* k, mu and slices that the callables built captured
    tCached,       \* whether self._pkmu_gradient exists
    tRan,          \* the callable that ran last: "none", "model" or "grad"
    tLog           \* the collaborator calls of that run

pipeVars ==
    <<tTransfers, tStats, tModelParams, tBuilt, tGrid, tCached, tRan, tLog>>

VARIABLES
    pc,            \* where run() is: "idle" (not called yet), "prior" and
                   \* "scatter" (in an initialization loop), "setup", "search",
                   \* "extract", "returned", "raised" (an exception left run())
    params,        \* the driver's configuration (the params argument)
    arg,           \* the init_values argument as the caller passed it
    given,         \* lbfgs_options' test_convergence entry as run() found it
    init_values,   \* the local init_values
    live,          \* the values of the live parameters fit_params.free
    options,       \* the options handed to minimizer.run_nlopt
    maxiter,       \* the iteration count logged at line 80, if one was logged
    restart_data,  \* the restart continuation record
    minimizer,     \* the minimizer: its data (curr_state.X, iteration, funcalls,
                   \* status) and the memory of its search
    searchStart,   \* minimizer.data as the search found it
    xAtSearchEnd,  \* curr_state.X as the search left it
    exception,     \* the local exception: the exception caught, or "None"
    escaped,       \* the kind of the exception that left run(), or "None"
    results,       \* the results object of the last return (kind "None": None)
    chain          \* the run from scratch that the current results continue

driverVars ==
    <<pc, params, arg, given, init_values, live, options, maxiter, restart_data,
      minimizer, searchStart, xAtSearchEnd, exception, escaped, results, chain>>

VARIABLES
    aStatistics,   \* data.statistics: the statistic manifest, in order
    aStatIds,      \* stat_ids as its iteration yields it: (name, binval) pairs
    aDecorator,    \* theory_decorator: per statistic, what is registered
    aTransfers,    \* the transfers: each the bin values its result carries
    aLens,         \* per bin value, how many points a selection of it holds
    aOptimized,    \* whether the interpreter runs with assertions stripped
    aOut           \* the outcome of the last apply_transfers call

applyVars ==
    <<aStatistics, aStatIds, aDecorator, aTransfers, aLens, aOptimized, aOut>>

VARIABLES
    gValues,       \* the values of the free parameters (self.free_values)
    gTheta,        \* the argument of preserve(theta)
    gSaved,        \* original_state of the preserve() in progress
    gStage         \* "out" (no context entered yet), "in" (inside the body),
                   \* "exited" (body completed), "raised" (body raised)

preserveVars == <<gValues, gTheta, gSaved, gStage>>

\* what the actions of one component leave alone
notScale == <<paramVars, pipeVars, driverVars, applyVars, preserveVars>>
notParams == <<scaleVars, pipeVars, driverVars, applyVars, preserveVars>>
notPipe == <<scaleVars, paramVars, driverVars, applyVars, preserveVars>>
notDriver == <<scaleVars, paramVars, pipeVars, applyVars, preserveVars>>
notApply == <<scaleVars, paramVars, pipeVars, driverVars, preserveVars>>
notPreserve == <<scaleVars, paramVars, pipeVars, driverVars, applyVars>>

----------------------------------------------------------------------------
(* The parameter set of the fit: two free parameters, in free_names order. *)

FreeNames == <<"b1", "sigma">>
NFree == Len(FreeNames)
FreeIdx == 1..NFree

\* all free-parameter vectors with components drawn from S
Vectors(S) == [FreeIdx -> S]

----------------------------------------------------------------------------
(* ScalingTransform: BasePowerParameters.scale / inverse_scale             *)

\* a wrong inverse transform: the offset is subtracted instead of added
inverse_scale_minus(theta, locs, scales) == VSub(VMul(theta, scales), locs)

\* (theta - self.locs) / self.scales
scale(theta, locs, scales) == VDiv(VSub(theta, locs), scales)

\* theta*self.scales + self.locs
inverse_scale(theta, locs, scales) == VAdd(VMul(theta, scales), locs)

\* locs and scales come from the priors of the free parameters
LocChoices == {RInt(0), RInt(1), Rat(-1, 2)}
ScaleChoices == {RInt(1), RInt(2), Rat(1, 2), RInt(3)}

ScaleIdle ==
    /\ sLocs = [i \in FreeIdx |-> RInt(0)]
    /\ sScales = [i \in FreeIdx |-> RInt(1)]
    /\ sIn = [i \in FreeIdx |-> RInt(0)]
    /\ sMid = [i \in FreeIdx |-> RInt(0)]
    /\ sOut = [i \in FreeIdx |-> RInt(0)]
    /\ sStage = "none"

InitScale ==
    /\ sLocs \in Vectors(LocChoices)
    /\ sScales \in Vectors(ScaleChoices)
    /\ sIn \in Vectors(SmallRats)
    /\ sMid = sIn
    /\ sOut = sIn
    /\ sStage = "none"

\* fit_params.scale(x) on a fresh vector
ScaleFirst ==
    /\ sStage = "none"
    /\ sMid' = scale(sIn, sLocs, sScales)
    /\ sStage' = "scale"
    /\ UNCHANGED <<sLocs, sScales, sIn, sOut, notScale>>

\* fit_params.inverse_scale(y) on the scaled vector
InverseSecond ==
    /\ sStage = "scale"
    /\ sOut' = inverse_scale(sMid, sLocs, sScales)
    /\ sStage' = "scale;inverse_scale"
    /\ UNCHANGED <<sLocs, sScales, sIn, sMid, notScale>>

\* fit_params.inverse_scale(x) on a fresh vector
InverseFirst ==
    /\ sStage = "none"
    /\ sMid' = inverse_scale(sIn, sLocs, sScales)
    /\ sStage' = "inverse_scale"
    /\ UNCHANGED <<sLocs, sScales, sIn, sOut, notScale>>

\* fit_params.scale(y) on the unscaled vector
ScaleSecond ==
    /\ sStage = "inverse_scale"
    /\ sOut' = scale(sMid, sLocs, sScales)
    /\ sStage' = "inverse_scale;scale"
    /\ UNCHANGED <<sLocs, sScales, sIn, sMid, notScale>>

NextScale == ScaleFirst \/ InverseSecond \/ InverseFirst \/ ScaleSecond

----------------------------------------------------------------------------
(* ParameterStore: the free parameters, their bounds, and                  *)
(* BasePowerParameters.set_free_parameters.                                *)

\* Declared bounds of the free parameters, in free_names order: b1 has
\* min 0 and max 1; sigma has min 1/2, no max, and a uniform prior that is
\* zero above 3/2.
ParamMin == <<[has |-> TRUE, v |-> RInt(0)], [has |-> TRUE, v |-> Rat(1, 2)]>>
ParamMax == <<[has |-> TRUE, v |-> RInt(1)], [has |-> FALSE, v |-> RInt(0)]>>
PriorUpper == <<[has |-> FALSE, v |-> RInt(0)], [has |-> TRUE, v |-> Rat(3, 2)]>>

\* Parameter.within_bounds(value) of free parameter i: inside min/max and
\* inside the support of its prior; an absent limit always passes
within_bounds(i, value) ==
    /\ ParamMin[i].has => RLe(ParamMin[i].v, value)
    /\ ParamMax[i].has => RLe(value, ParamMax[i].v)
    /\ PriorUpper[i].has => RLe(value, PriorUpper[i].v)

\* all(p.within_bounds(theta[i]) for i, p in enumerate(self.free))
AllWithinBounds(theta) == \A i \in FreeIdx : within_bounds(i, theta[i])

\* self.update_values(**dict(zip(self.free_names, theta))) that raises while
\* it sets the failAt-th name: the names before it hold their new values
UpdatedPrefix(values, theta, failAt) ==
    [i \in FreeIdx |-> IF i < failAt THEN theta[i] ELSE values[i]]

\* a wrong update: each component is checked and set in turn, so that the
\* components before the first violation are applied before False is returned
set_free_parameters_eager(values, model, theta, failAt, modelFails) ==
    LET bad == {i \in FreeIdx : ~within_bounds(i, theta[i])}
        first == CHOOSE i \in bad : \A j \in bad : i <= j
    IN  IF bad # {}
        THEN [ret |-> "False", values |-> UpdatedPrefix(values, theta, first),
              model |-> model]
        ELSE [ret |-> "True", values |-> theta, model |-> theta]

\* a wrong update: the values set are taken back when the model's update
\* fails
set_free_parameters_rollback(values, model, theta, failAt, modelFails) ==
    IF ~AllWithinBounds(theta)
    THEN [ret |-> "False", values |-> values, model |-> model]
    ELSE IF failAt > 0
    THEN [ret |-> "AttributeError",
          values |-> UpdatedPrefix(values, theta, failAt), model |-> model]
    ELSE IF modelFails
    THEN [ret |-> "RuntimeError", values |-> values, model |-> model]
    ELSE [ret |-> "True", values |-> theta, model |-> theta]

\* BasePowerParameters.set_free_parameters(theta).  failAt = 0: update_values
\* succeeds; failAt = j > 0: it raises at the j-th name.  modelFails: whether
\* self.model.update(**self.to_dict()) raises.  The result is the outcome
\* (the value returned or the kind of the exception raised) and the state
\* left behind.
set_free_parameters(values, model, theta, failAt, modelFails) ==
    IF ~AllWithinBounds(theta)
    THEN [ret |-> "False", values |-> values, model |-> model]
    ELSE IF failAt > 0
    \* the handler builds its message from self.fit_params, an attribute the
    \* parameter set does not have: the AttributeError raised there replaces
    \* the RuntimeError of the next line
    THEN [ret |-> "AttributeError",
          values |-> UpdatedPrefix(values, theta, failAt), model |-> model]
    ELSE IF modelFails
    THEN [ret |-> "RuntimeError", values |-> theta, model |-> model]
    ELSE [ret |-> "True", values |-> theta, model |-> theta]

\* bound: trial values are the halves n/2 with -1 <= n <= MaxTheta
MaxTheta == 3
ThetaValues == {Rat(n, 2) : n \in (-1)..MaxTheta}

InBoundsVectors == {v \in Vectors(ThetaValues) : AllWithinBounds(v)}

\* how the collaborators of one call can behave: update_values raises at
\* the failAt-th name (0: not at all), model.update raises or not; neither
\* is called for a theta that is out of bounds, and model.update is not
\* called once update_values has raised
CollaboratorChoices(theta) ==
    IF AllWithinBounds(theta)
    THEN [failAt : {0}, modelFails : BOOLEAN]
             \cup [failAt : 1..NFree, modelFails : {FALSE}]
    ELSE {[failAt |-> 0, modelFails |-> FALSE]}

ParamsIdle ==
    /\ pValues = [i \in FreeIdx |-> RInt(1)]
    /\ pModel = pValues
    /\ pTheta = pValues
    /\ pRet = "none"
    /\ pOp = "none"

\* what a model object can hold for the free parameters: any values, which
\* nothing compares with the bounds of the parameter set
ModelStates == Vectors(ThetaValues)

\* BasePowerTheory.__init__: the free values are those of the parameter file,
\* which no bounds check reads, and the model object is the one given or a
\* new one, constructed from the model_params alone
InitParams ==
    /\ pValues \in Vectors(ThetaValues)
    /\ pModel \in ModelStates
    /\ pTheta = pValues
    /\ pRet = "none"
    /\ pOp = "none"

\* BasePowerTheory.set_free_parameters(theta): delegates to the parameter set
SetFreeParameters ==
    \E theta \in Vectors(ThetaValues) : \E c \in CollaboratorChoices(theta) :
        LET r == set_free_parameters(pValues, pModel, theta, c.failAt, c.modelFails)
        IN  /\ pTheta' = theta
            /\ pRet' = r.ret
            /\ pValues' = r.values
            /\ pModel' = r.model
            /\ pOp' = "set_free_parameters"
            /\ UNCHANGED notParams

\* the names the parameter set knows besides the free ones: a default that
\* is fixed, a deprecated name, a name of extra_params
FixedDefaults == {"f"}
DeprecatedNames == {"old_name"}
ExtraParams == {"extra1"}
DefaultNames == {FreeNames[i] : i \in FreeIdx} \cup FixedDefaults

\* BasePowerParameters.is_valid(name)
is_valid(name) ==
    \/ name \in DefaultNames
    \/ name \in DeprecatedNames
    \/ name \in ExtraParams

\* BasePowerParameters.__setitem__(name, value): an invalid name raises
\* RuntimeError; a Parameter under a valid name is stored, with no bounds
\* check and no update of the model.  The result is the free values: those
\* of a name that is not free are not among them.
setitem(values, name, value) ==
    IF ~is_valid(name) THEN values
    ELSE [i \in FreeIdx |-> IF FreeNames[i] = name THEN value ELSE values[i]]

\* the assignments fit_params[name] = Parameter(value=v, ...): a free
\* parameter replaced by a free one with its bounds, a parameter that is
\* not free stored under another valid name, or an unknown name
SetItemChoices ==
    [name : {FreeNames[i] : i \in FreeIdx}, value : ThetaValues]
        \cup [name : FixedDefaults \cup DeprecatedNames \cup ExtraParams \cup {"unknown"},
              value : {RInt(1)}]

\* the outcome of __setitem__: RuntimeError for an invalid name
setitem_outcome(name) == IF is_valid(name) THEN "None" ELSE "RuntimeError"

\* fit_params[name] = Parameter(...)
SetItem ==
    /\ \E c \in SetItemChoices :
           /\ pValues' = setitem(pValues, c.name, c.value)
           /\ pRet' = setitem_outcome(c.name)
    /\ pTheta' = pValues'
    /\ pOp' = "setitem"
    /\ UNCHANGED <<pModel, notParams>>

\* what theory.model can be assigned: None (a new model is constructed), a
\* file name (a model is loaded), a model instance, or something else.
\* state is what the constructed, loaded or given model object holds,
\* wrongClass whether the loaded model is of another class than the theory's,
\* updateRaises whether its update(**kwargs) raises.  One object stands for
\* those the setter rejects: what it holds reaches no state.
ModelValues ==
    [kind : {"None", "file", "instance"}, state : ModelStates,
     wrongClass : {FALSE}, updateRaises : {FALSE}]
        \cup [kind : {"file"}, state : {[i \in FreeIdx |-> RInt(1)]},
              wrongClass : {TRUE}, updateRaises : {FALSE}]
        \cup [kind : {"file", "instance"}, state : {[i \in FreeIdx |-> RInt(1)]},
              wrongClass : {FALSE}, updateRaises : {TRUE}]
        \cup [kind : {"other"}, state : {[i \in FreeIdx |-> RInt(1)]},
              wrongClass : {FALSE}, updateRaises : {FALSE}]

\* the model setter of BasePowerTheory, as far as fit_params.model goes.  A
\* value of another kind raises ConfigurationError before anything is bound
\* (line 483).  A loaded or given model is bound to the theory (lines 476,
\* 479) and then updated with the model_params only; when that update
\* raises, or when the loaded model is of another class (ValueError, lines
\* 485-488), the setter is left before line 492 binds the new object to the
\* parameter set, whose model stays the old object.
model_setter(model, value) ==
    IF value.kind = "other" THEN model
    ELSE IF value.kind # "None" /\ value.updateRaises THEN model
    ELSE IF value.wrongClass THEN model
    ELSE value.state

\* the outcome of the model setter: the exception of line 483, the one that
\* update(**kwargs) raised at line 477 or 480, the ValueError of line 487
model_setter_outcome(value) ==
    IF value.kind = "other" THEN "ConfigurationError"
    ELSE IF value.kind # "None" /\ value.updateRaises THEN "Exception"
    ELSE IF value.wrongClass THEN "ValueError"
    ELSE "None"

\* theory.model = value
SetModel ==
    /\ \E value \in ModelValues :
           /\ pModel' = model_setter(pModel, value)
           /\ pRet' = model_setter_outcome(value)
    /\ pTheta' = pValues
    /\ pOp' = "model"
    /\ UNCHANGED <<pValues, notParams>>

NextParams == SetFreeParameters \/ SetItem \/ SetModel

----------------------------------------------------------------------------
(* TransferPipeline: the callables of BasePowerTheory that evaluate the    *)
(* model (or its gradient) on the grid of all the transfers.               *)

\* bounds: how many transfers a callable is built over, how many (k, mu)
\* pairs one transfer owns, how many statistics are requested
MaxTransfers == 2
MaxGrid == 2
MaxStats == 2

\* a transfer that owns n pairs: its flattened k values are 1..n and every
\* one of its mu values is its own id, so that the pairs of two transfers
\* with different ids are told apart
Transfer(id, n) ==
    [id |-> id, flatk |-> [j \in 1..n |-> j], flatmu |-> [j \in 1..n |-> id]]

TransferChoices == {Transfer(id, n) : id \in 1..MaxTransfers, n \in 1..MaxGrid}

\* the non-empty lists of at most MaxTransfers transfers
TransferLists ==
    UNION {[1..len -> TransferChoices] : len \in 1..MaxTransfers}

\* np.concatenate of a list of arrays
RECURSIVE Concatenate(_)
Concatenate(arrays) ==
    IF arrays = <<>> THEN <<>>
    ELSE Head(arrays) \o Concatenate(Tail(arrays))

\* the slices of get_kmu_pairs: transfers[i] owns the index range
\* [start, stop) behind the transfers before it (0-based, as slice(start, stop))
RECURSIVE SlicesFrom(_, _)
SlicesFrom(transfers, start) ==
    IF transfers = <<>> THEN <<>>
    ELSE LET N == Len(Head(transfers).flatk)
         IN  <<[start |-> start, stop |-> start + N]>>
                 \o SlicesFrom(Tail(transfers), start + N)

\* a wrong grid: start is not advanced, every slice begins at 0
get_kmu_pairs_no_advance(transfers) ==
    [k |-> Concatenate([i \in DOMAIN transfers |-> transfers[i].flatk]),
     mu |-> Concatenate([i \in DOMAIN transfers |-> transfers[i].flatmu]),
     slices |-> [i \in DOMAIN transfers |->
                    [start |-> 0, stop |-> Len(transfers[i].flatk)]]]

\* BasePowerTheory.get_kmu_pairs(transfers)
get_kmu_pairs(transfers) ==
    [k |-> Concatenate([i \in DOMAIN transfers |-> transfers[i].flatk]),
     mu |-> Concatenate([i \in DOMAIN transfers |-> transfers[i].flatmu]),
     slices |-> SlicesFrom(transfers, 0)]

\* array[slice(start, stop)]
Sliced(array, sl) == SubSeq(array, sl.start + 1, sl.stop)

\* one call made on a collaborator while a callable runs: the operation and
\* the grid (k, mu) it was given (empty for a call that takes no grid)
Event(op, k, mu) == [op |-> op, k |-> k, mu |-> mu]

\* the transfer calls of apply_transfers: t(P[slices[i]]) for each transfer
\* in turn; selecting and decorating the statistics calls no collaborator
ApplyTransfersEvents(transfers, grid) ==
    [i \in DOMAIN transfers |->
        Event("transfer", Sliced(grid.k, grid.slices[i]),
              Sliced(grid.mu, grid.slices[i]))]

\* self.model.update(**model_params) when model_params is given
UpdateEvents(hasModelParams) ==
    IF hasModelParams THEN <<Event("update", <<>>, <<>>)>> ELSE <<>>

\* a wrong evaluate(): the model is evaluated once per transfer, on that
\* transfer's own pairs
ModelEvaluateEventsPerTransfer(transfers, grid, hasModelParams) ==
    UpdateEvents(hasModelParams)
        \o [i \in DOMAIN transfers |->
               Event("power", transfers[i].flatk, transfers[i].flatmu)]
        \o ApplyTransfersEvents(transfers, grid)

\* evaluate() of get_model_callable: the calls it makes, in order
ModelEvaluateEvents(transfers, grid, hasModelParams) ==
    UpdateEvents(hasModelParams)
        \o <<Event("power", grid.k, grid.mu)>>
        \o ApplyTransfersEvents(transfers, grid)

\* the property pkmu_gradient: the gradient object is created on first use
\* (self.model.get_gradient) and cached in self._pkmu_gradient
PkmuGradientEvents(cached) ==
    IF cached THEN <<>> ELSE <<Event("get_gradient", <<>>, <<>>)>>

\* a wrong evaluate(): the gradient model is evaluated once per free parameter
GradEvaluateEventsPerParameter(transfers, grid, hasModelParams, cached) ==
    UpdateEvents(hasModelParams)
        \o PkmuGradientEvents(cached)
        \o Concatenate([i \in FreeIdx |->
               <<Event("gradient", grid.k, grid.mu)>>
                   \o ApplyTransfersEvents(transfers, grid)])

\* evaluate(theta, ...) of get_grad_model_callable: one gradient call, then
\* apply_transfers once per free parameter (for i in range(self.ndim))
GradEvaluateEvents(transfers, grid, hasModelParams, cached) ==
    UpdateEvents(hasModelParams)
        \o PkmuGradientEvents(cached)
        \o <<Event("gradient", grid.k, grid.mu)>>
        \o Concatenate([i \in FreeIdx |-> ApplyTransfersEvents(transfers, grid)])

NoGrid == [k |-> <<>>, mu |-> <<>>, slices |-> <<>>]

PipeIdle ==
    /\ tTransfers = <<Transfer(1, 1)>>
    /\ tStats = 1
    /\ tModelParams = FALSE
    /\ tBuilt = {}
    /\ tGrid = NoGrid
    /\ tCached = FALSE
    /\ tRan = "none"
    /\ tLog = <<>>

\* a theory and a data configuration: the transfers, the statistics and the
\* model parameters stay as they are while callables are built and run
InitPipe ==
    /\ tTransfers \in TransferLists
    /\ tStats \in 1..MaxStats
    /\ tModelParams \in BOOLEAN
    /\ tBuilt = {}
    /\ tGrid = NoGrid
    /\ tCached = FALSE
    /\ tRan = "none"
    /\ tLog = <<>>

\* theory.get_model_callable(data, transfers, stat_ids, model_params, ...)
GetModelCallable ==
    /\ tGrid' = get_kmu_pairs(tTransfers)
    /\ tBuilt' = tBuilt \cup {"model"}
    /\ UNCHANGED <<tTransfers, tStats, tModelParams, tCached, tRan, tLog, notPipe>>

\* theory.get_grad_model_callable(data, transfers, stat_ids, model_params, ...)
GetGradModelCallable ==
    /\ tGrid' = get_kmu_pairs(tTransfers)
    /\ tBuilt' = tBuilt \cup {"grad"}
    /\ UNCHANGED <<tTransfers, tStats, tModelParams, tCached, tRan, tLog, notPipe>>

\* one call of the callable that get_model_callable returned
EvaluateModel ==
    /\ "model" \in tBuilt
    /\ tLog' = ModelEvaluateEvents(tTransfers, tGrid, tModelParams)
    /\ tRan' = "model"
    /\ UNCHANGED <<tTransfers, tStats, tModelParams, tBuilt, tGrid, tCached, notPipe>>

\* one call of the callable that get_grad_model_callable returned
EvaluateGrad ==
    /\ "grad" \in tBuilt
    /\ tLog' = GradEvaluateEvents(tTransfers, tGrid, tModelParams, tCached)
    /\ tCached' = TRUE
    /\ tRan' = "grad"
    /\ UNCHANGED <<tTransfers, tStats, tModelParams, tBuilt, tGrid, notPipe>>

\* theory.pkmu_gradient read outside a callable: the gradient object is
\* created, and kept, when there is none yet
ReadPkmuGradient ==
    /\ tCached' = TRUE
    /\ UNCHANGED <<tTransfers, tStats, tModelParams, tBuilt, tGrid, tRan, tLog,
                   notPipe>>

NextPipe ==
    \/ GetModelCallable
    \/ GetGradModelCallable
    \/ EvaluateModel
    \/ EvaluateGrad
    \/ ReadPkmuGradient

----------------------------------------------------------------------------
(* apply_transfers(P, data, transfers, stat_ids, slices, theory_decorator) *)

\* the statistics a data set can name and the bin values (ell or mu_cen) the
\* transfers' results carry
StatisticNames == {"mono", "quad"}
BinValues == {0, 2}

\* the orderings of the non-empty subsets of S
Orderings(S) ==
    UNION {{q \in [1..Cardinality(T) -> T] :
                \A i, j \in 1..Cardinality(T) : q[i] = q[j] => i = j} :
           T \in (SUBSET S) \ {{}}}

Range(q) == {q[i] : i \in DOMAIN q}

\* binval of one statistic as line 780 leaves it: a list of bin values
BinLists == {<<0>>, <<2>>, <<0, 2>>}

\* what theory_decorator can register for a statistic: nothing, a decorator
\* that returns an array, a decorator that returns something else
DecoratorKinds == {"None", "array", "other"}

\* the ways the bin values are spread over one or two transfers
TransferBins == {<<<<0, 2>>>>, <<<<2, 0>>>>, <<<<0>>, <<2>>>>, <<<<2>>, <<0>>>>}

\* lines 748-756: every transfer applied to its slice and the results
\* concatenated along the last dimension: one column per bin value, in
\* transfer order; the point p of the column of bin b holds the value (b, p)
TransferResult(transfers, lens) ==
    Concatenate([i \in DOMAIN transfers |->
        [j \in DOMAIN transfers[i] |->
            [bin |-> transfers[i][j],
             values |-> [p \in 1..lens[transfers[i][j]] |-> <<transfers[i][j], p>>]]]])

\* lines 773-787, r = result.sel(**{dim:bb}) and the values taken from it:
\* the column is found by its label
Sel(result, bb) ==
    LET i == CHOOSE i \in DOMAIN result : result[i].bin = bb
    IN  result[i].values

\* dec(*theory) of a decorator that returns an array: one value per point of
\* its first argument
Decorated(theory) == [p \in DOMAIN theory[1] |-> <<-1, p>>]

\* lines 760-804, one pass of the loop over stat_ids: the final theory of one
\* statistic, or the exception that ends the call.  Without a decorator the
\* assertion of line 795 holds or raises AssertionError (or is not executed,
\* when assertions are stripped); a final theory that is not an array makes
\* line 800 read the name stat, which is not defined: NameError.
StatTheory(entry, result, decorator, optimized) ==
    LET theory == [b \in DOMAIN entry.binval |-> Sel(result, entry.binval[b])]
        dec == decorator[entry.name]
    IN  IF dec = "array"
        THEN [kind |-> "array", names |-> {}, values |-> Decorated(theory)]
        ELSE IF dec = "other"
        THEN [kind |-> "NameError", names |-> {}, values |-> <<>>]
        ELSE IF Len(theory) # 1 /\ ~optimized
        THEN [kind |-> "AssertionError", names |-> {}, values |-> <<>>]
        ELSE [kind |-> "array", names |-> {}, values |-> theory[1]]

\* the loop of lines 759-804 over the statistics still to do: toret, or the
\* exception that ended the call
RECURSIVE FormatResults(_, _, _, _, _)
FormatResults(todo, toret, result, decorator, optimized) ==
    IF todo = <<>>
    THEN [kind |-> "returned", names |-> {}, toret |-> toret]
    ELSE LET t == StatTheory(Head(todo), result, decorator, optimized)
         IN  IF t.kind # "array"
             THEN [kind |-> t.kind, names |-> t.names, toret |-> <<>>]
             ELSE FormatResults(Tail(todo),
                      Append(toret, [stat |-> Head(todo).name, values |-> t.values]),
                      result, decorator, optimized)

\* apply_transfers: the statistics are formatted in the order stat_ids
\* yields them; data.statistics is read only to find each statistic's
\* measurement (line 764).  kind is "returned" or the exception raised, names
\* the statistics the exception's message names, toret the list of per-
\* statistic arrays that line 806 concatenates and returns.
apply_transfers(statistics, transfers, lens, stat_ids, decorator, optimized) ==
    FormatResults(stat_ids, <<>>, TransferResult(transfers, lens),
                  decorator, optimized)

NoOutcome == [kind |-> "none", names |-> {}, toret |-> <<>>]

ApplyIdle ==
    /\ aStatistics = <<"mono">>
    /\ aStatIds = <<[name |-> "mono", binval |-> <<0>>]>>
    /\ aDecorator = [n \in {"mono"} |-> "None"]
    /\ aTransfers = <<<<0, 2>>>>
    /\ aLens = [b \in BinValues |-> 1]
    /\ aOptimized = FALSE
    /\ aOut = NoOutcome

\* a data set and a theory configuration: every statistic of stat_ids is in
\* the manifest, and every bin value it names is in the transfers' results
InitApply ==
    /\ aStatistics \in Orderings(StatisticNames)
    /\ \E names \in Orderings(Range(aStatistics)) :
           aStatIds \in {q \in [DOMAIN names -> [name : Range(names), binval : BinLists]] :
                             \A i \in DOMAIN names : q[i].name = names[i]}
    /\ aDecorator \in [Range(aStatistics) -> DecoratorKinds]
    /\ aTransfers \in TransferBins
    /\ aLens \in [BinValues -> 1..MaxGrid]
    /\ aOptimized \in BOOLEAN
    /\ aOut = NoOutcome

\* one call of apply_transfers
ApplyTransfers ==
    /\ aOut' = apply_transfers(aStatistics, aTransfers, aLens, aStatIds,
                               aDecorator, aOptimized)
    /\ UNCHANGED <<aStatistics, aStatIds, aDecorator, aTransfers, aLens,
                   aOptimized, notApply>>

NextApply == ApplyTransfers

----------------------------------------------------------------------------
(* BasePowerTheory.preserve(theta): the context manager that sets the free *)
(* parameters to theta for the time of its body.                           *)

\* lines 441-446: entering the context saves the free values and sets theta
preserve_enter(values, theta) == [saved |-> values, values |-> theta]

\* lines 448-452: leaving the context.  preserve is a generator wrapped by
\* contextlib.contextmanager and its yield is not inside a try statement: an
\* exception of the body is thrown into the generator at the yield and
\* leaves it there, so that the lines after the yield run only when the body
\* completed.
preserve_exit(values, saved, raised) == IF raised THEN values ELSE saved

PreserveIdle ==
    /\ gValues = [i \in FreeIdx |-> RInt(1)]
    /\ gTheta = gValues
    /\ gSaved = gValues
    /\ gStage = "out"

InitPreserve ==
    /\ gValues \in InBoundsVectors
    /\ gTheta = gValues
    /\ gSaved = gValues
    /\ gStage = "out"

\* with theory.preserve(theta):
PreserveEnter ==
    /\ gStage # "in"
    /\ \E theta \in Vectors(ThetaValues) :
        LET e == preserve_enter(gValues, theta)
        IN  /\ gTheta' = theta
            /\ gSaved' = e.saved
            /\ gValues' = e.values
    /\ gStage' = "in"
    /\ UNCHANGED notPreserve

\* the body sets the free parameters to other values
PreserveBodySets ==
    /\ gStage = "in"
    /\ \E v \in InBoundsVectors : gValues' = v
    /\ UNCHANGED <<gTheta, gSaved, gStage, notPreserve>>

\* the body completes
PreserveBodyCompletes ==
    /\ gStage = "in"
    /\ gValues' = preserve_exit(gValues, gSaved, FALSE)
    /\ gStage' = "exited"
    /\ UNCHANGED <<gTheta, gSaved, notPreserve>>

\* the body raises
PreserveBodyRaises ==
    /\ gStage = "in"
    /\ gValues' = preserve_exit(gValues, gSaved, TRUE)
    /\ gStage' = "raised"
    /\ UNCHANGED <<gTheta, gSaved, notPreserve>>

NextPreserve ==
    \/ PreserveEnter
    \/ PreserveBodySets
    \/ PreserveBodyCompletes
    \/ PreserveBodyRaises

----------------------------------------------------------------------------
(* OptimizationDriver: run() of lbfgs_solver.py, with the initialization   *)
(* loops it calls and the bounded search it drives.                        *)

\* bound: the largest max_iter given in lbfgs_options
MaxIter == 2

\* the parameter set's locs and scales (from the priors of b1 and sigma) and
\* the fiducial values of the free parameters
ParamLocs == <<Rat(1, 2), RInt(0)>>
ParamScales == <<Rat(1, 2), Rat(3, 2)>>
Fiducial == <<Rat(1, 2), RInt(1)>>

\* what p.get_value_from_prior(size=1) can return for each free parameter,
\* and the vectors [p.get_value_from_prior(size=1) for p in params]
PriorValues == <<{RInt(0), RInt(1), RInt(2)}, {RInt(0), Rat(3, 2)}>>
PriorDraws == {v \in Vectors(SmallRats \cup {Rat(3, 2)}) :
                   \A i \in FreeIdx : v[i] \in PriorValues[i]}

\* what one component of np.random.normal(scale=scale) can be, in units of
\* its scale
NoiseUnits == {-2, 1}

\* the values of init_from: the three the driver names, and one standing for
\* any other string
InitFromChoices == {"prior", "fiducial", "result", "max-like"}
ScatterChoices == {RInt(0), Rat(1, 2)}

\* lbfgs_options' max_iter: absent, or 1..MaxIter
MaxIterChoices ==
    {[has |-> FALSE, v |-> 0]} \cup {[has |-> TRUE, v |-> n] : n \in 1..MaxIter}

\* the configurations: init_from, init_scatter, lbfgs_rescale, whether
\* params stores an lbfgs_options mapping, the max_iter and test_convergence
\* entries of that mapping (an absent test_convergence entry reads as FALSE,
\* and a mapping that is not stored has no entry), and test_convergence
ParamsChoices ==
    {p \in [init_from : InitFromChoices,
            init_scatter : ScatterChoices,
            lbfgs_rescale : BOOLEAN,
            lbfgs_options_stored : BOOLEAN,
            max_iter : MaxIterChoices,
            options_test_convergence : BOOLEAN,
            test_convergence : BOOLEAN] :
        ~p.lbfgs_options_stored =>
            ~p.max_iter.has /\ ~p.options_test_convergence}

\* the state of a minimizer constructed at x, lbfgs.LBFGS(f, fprime, x): its
\* data, and memory, the number of previous gradients the quasi-Newton search
\* holds, which is none in a new minimizer
StatusNone == 0
StatusConverged == 1
StatusMaxIter == 2
LBFGS(x) ==
    [X |-> x, iteration |-> 0, funcalls |-> 0, status |-> StatusNone,
     memory |-> 0]

\* the values init_values can hold: None, an array, a results object
NoArray == [i \in FreeIdx |-> RInt(0)]
NoneValue == [kind |-> "None", X |-> NoArray, data |-> LBFGS(NoArray)]
ArrayValue(x) == [kind |-> "array", X |-> x, data |-> LBFGS(NoArray)]

\* LBFGSResults(d, fit_params): the minimizer's data, and its solution
\* vector, which results[name] reads by free-parameter name
LBFGSResults(d) == [kind |-> "results", X |-> d.X, data |-> d]
IndexOf(name) == CHOOSE i \in FreeIdx : FreeNames[i] = name
ResultItem(r, name) == r.X[IndexOf(name)]

\* isinstance(init_values, LBFGSResults)
IsResults(iv) == iv.kind = "results"

\* the bounded quasi-Newton search, minimizer.run_nlopt(**options), in which
\* each iteration depends on the previous gradient.  The objective is
\* quadratic with its minimum at Target.  An iteration that has no previous
\* gradient moves every component of the solver-space vector down the
\* gradient by at most StepLen; one that has the previous gradient takes the
\* secant step, which is exact on this objective.  An iteration costs one
\* function evaluation plus one per component that moved.
Target == <<RInt(1), Rat(1, 2)>>
StepLen == Rat(1, 4)
DefaultMaxIter == 100

SolverTarget(scaling) ==
    IF scaling THEN scale(Target, ParamLocs, ParamScales) ELSE Target

Clamp(v) ==
    IF RLt(StepLen, v) THEN StepLen
    ELSE IF RLt(v, RSub(RInt(0), StepLen)) THEN RSub(RInt(0), StepLen)
    ELSE v

SearchIterate(d, scaling) ==
    LET T == SolverTarget(scaling)
        moving == {i \in FreeIdx : d.X[i] # T[i]}
    IN  [d EXCEPT !.X = IF d.memory = 0
                        THEN [i \in FreeIdx |->
                                 RAdd(d.X[i], Clamp(RSub(T[i], d.X[i])))]
                        ELSE T,
                  !.iteration = @ + 1,
                  !.funcalls = @ + 1 + Cardinality(moving),
                  !.memory = 1]

Converged(d, scaling) == d.X = SolverTarget(scaling)

\* the iteration cap the search applies: none in test-convergence mode
CapReached(d, opts) ==
    /\ ~opts.test_convergence
    /\ d.iteration >= (IF opts.max_iter.has THEN opts.max_iter.v ELSE DefaultMaxIter)

SearchDone(d, opts, scaling) == Converged(d, scaling) \/ CapReached(d, opts)

SearchStatus(d, scaling) ==
    IF Converged(d, scaling) THEN StatusConverged ELSE StatusMaxIter

\* the search run to its end from d without interruption
RECURSIVE RunSearch(_, _, _)
RunSearch(d, opts, scaling) ==
    IF SearchDone(d, opts, scaling)
    THEN [d EXCEPT !.status = SearchStatus(d, scaling)]
    ELSE RunSearch(SearchIterate(d, scaling), opts, scaling)

----------------------------------------------------------------------------
(* run(): lines 50-147, up to the search                                   *)

\* wrong options: lbfgs_options reaches the search as it was given, with its
\* own test_convergence entry
RunOptionsPassedThrough(p, iv) ==
    LET tc == p.options_test_convergence
        logged == p.max_iter.has /\ ~tc
        n == p.max_iter.v - (IF IsResults(iv) THEN iv.data.iteration ELSE 0)
    IN  [options |-> [max_iter |-> p.max_iter, test_convergence |-> tc],
         maxiter |-> [logged |-> logged, v |-> IF logged THEN n ELSE 0]]

\* wrong options: the cap handed to the search is the adjusted count
RunOptionsAdjusted(p, iv) ==
    LET tc == p.test_convergence
        logged == p.max_iter.has /\ ~tc
        n == p.max_iter.v - (IF IsResults(iv) THEN iv.data.iteration ELSE 0)
    IN  [options |-> [max_iter |-> IF logged THEN [has |-> TRUE, v |-> n]
                                   ELSE p.max_iter,
                      test_convergence |-> tc],
         maxiter |-> [logged |-> logged, v |-> IF logged THEN n ELSE 0]]

\* lines 72-81: the options that line 151 hands to run_nlopt, and the count
\* that line 80 logs.  options is params' lbfgs_options with its
\* test_convergence entry overwritten by params' test_convergence; maxiter is
\* a local that only the log message reads.
RunOptions(p, iv) ==
    LET tc == p.test_convergence
        logged == p.max_iter.has /\ ~tc
        n == p.max_iter.v - (IF IsResults(iv) THEN iv.data.iteration ELSE 0)
    IN  [options |-> [max_iter |-> p.max_iter, test_convergence |-> tc],
         maxiter |-> [logged |-> logged, v |-> IF logged THEN n ELSE 0]]

NoRestart == [set |-> FALSE, iteration |-> 0, funcalls |-> 0]

\* a wrong restart record: the function-evaluation count is not carried over
RestartDataIterationOnly(iv) ==
    IF IsResults(iv)
    THEN [set |-> TRUE, iteration |-> iv.data.iteration, funcalls |-> 0]
    ELSE NoRestart

\* lines 122-127: restart_data
RestartData(iv) ==
    IF IsResults(iv)
    THEN [set |-> TRUE, iteration |-> iv.data.iteration,
          funcalls |-> iv.data.funcalls]
    ELSE NoRestart

\* lines 129-137: the vector the minimizer is constructed at
StartVector(iv, scaling) ==
    LET x == IF IsResults(iv)
             THEN [i \in FreeIdx |-> ResultItem(iv, FreeNames[i])]
             ELSE iv.X
    IN  IF scaling THEN scale(x, ParamLocs, ParamScales) ELSE x

\* lines 140-144: a new minimizer, with the restart record put in its data;
\* nothing else of the search that produced the result is handed to it
NewMinimizer(x, rd) ==
    IF rd.set
    THEN [LBFGS(x) EXCEPT !.iteration = rd.iteration, !.funcalls = rd.funcalls]
    ELSE LBFGS(x)

NoChain == [ok |-> FALSE, start |-> NoArray]

DriverIdle ==
    /\ pc = "idle"
    /\ params = [init_from |-> "fiducial", init_scatter |-> RInt(0),
                 lbfgs_rescale |-> TRUE, lbfgs_options_stored |-> FALSE,
                 max_iter |-> [has |-> FALSE, v |-> 0],
                 options_test_convergence |-> FALSE, test_convergence |-> FALSE]
    /\ arg = NoneValue
    /\ given = params.options_test_convergence
    /\ init_values = NoneValue
    /\ live = Fiducial
    /\ options = RunOptions(params, NoneValue).options
    /\ maxiter = RunOptions(params, NoneValue).maxiter
    /\ restart_data = NoRestart
    /\ minimizer = LBFGS(NoArray)
    /\ searchStart = LBFGS(NoArray)
    /\ xAtSearchEnd = NoArray
    /\ exception = "None"
    /\ escaped = "None"
    /\ results = NoneValue
    /\ chain = NoChain

\* a constructed driver: the configuration is read once and is the same in
\* every call, except for the max_iter of a stored lbfgs_options, which each
\* call sets
InitDriver ==
    /\ pc = "idle"
    /\ params \in {p \in ParamsChoices : ~p.max_iter.has}
    /\ arg = NoneValue
    /\ given = params.options_test_convergence
    /\ init_values = NoneValue
    /\ live = Fiducial
    /\ options = RunOptions(params, NoneValue).options
    /\ maxiter = RunOptions(params, NoneValue).maxiter
    /\ restart_data = NoRestart
    /\ minimizer = LBFGS(NoArray)
    /\ searchStart = LBFGS(NoArray)
    /\ xAtSearchEnd = NoArray
    /\ exception = "None"
    /\ escaped = "None"
    /\ results = NoneValue
    /\ chain = NoChain

\* the init_values a caller can pass: None, the fiducial values, or the
\* results object it got from the last call that returned one
ArgChoices ==
    {NoneValue, ArrayValue(Fiducial)}
        \cup (IF IsResults(results) THEN {results} ELSE {})

\* a wrong choice: scatter is added whatever init_from names, unless it is
\* 'prior'
InitStrategyScatterAnySource(p) ==
    IF p.init_from = "prior" THEN "prior"
    ELSE IF RLt(RInt(0), p.init_scatter) THEN "scatter"
    ELSE "given"

\* lines 53-62: which initialization run() applies: a draw from the prior,
\* scatter added to init_values, or init_values as given
InitStrategy(p) ==
    IF p.init_from = "prior" THEN "prior"
    ELSE IF p.init_from \in {"fiducial", "result"} /\ RLt(RInt(0), p.init_scatter)
    THEN "scatter"
    ELSE "given"

\* a wrong loop exit: the draw is accepted when any parameter is within
\* bounds
LiveWithinBoundsAny(values) == \E i \in FreeIdx : within_bounds(i, values[i])

\* all(p.within_bounds() for p in params): the test that ends both
\* initialization loops reads the values of the live parameters
LiveWithinBounds(values) == \A i \in FreeIdx : within_bounds(i, values[i])

\* run(params, fit_params, init_values=a), lines 50-62: the initialization
\* strategy is chosen.  scatter*x at line 31 raises TypeError when x is not
\* an array (None, or a results object).
Call ==
    /\ pc \in {"idle", "returned", "raised"}
    /\ \E a \in ArgChoices,
          mi \in {m \in MaxIterChoices : m.has => params.lbfgs_options_stored} :
        /\ params' = [params EXCEPT !.max_iter = mi]
        /\ arg' = a
        /\ given' = params.options_test_convergence
        /\ init_values' = a
        /\ exception' = "None"
        /\ escaped' = IF InitStrategy(params) = "scatter" /\ a.kind # "array"
                      THEN "TypeError" ELSE "None"
        /\ pc' = IF InitStrategy(params) = "prior" THEN "prior"
                 ELSE IF InitStrategy(params) = "scatter"
                 THEN (IF a.kind = "array" THEN "scatter" ELSE "raised")
                 ELSE "setup"
    /\ UNCHANGED <<live, options, maxiter, restart_data, minimizer, searchStart,
                   xAtSearchEnd, results, chain, notDriver>>

\* one pass of the loop of InitializeFromPrior: the draw is written into the
\* live parameters, and returned if they are all within bounds
InitializeFromPrior ==
    /\ pc = "prior"
    /\ \E p0 \in PriorDraws :
        /\ live' = p0
        /\ IF LiveWithinBounds(live')
           THEN init_values' = ArrayValue(p0) /\ pc' = "setup"
           ELSE UNCHANGED <<init_values, pc>>
    /\ UNCHANGED <<params, arg, given, options, maxiter, restart_data, minimizer,
                   searchStart, xAtSearchEnd, exception, escaped, results,
                   chain, notDriver>>

\* one pass of the loop of InitializeWithScatter(params, x, scatter):
\* p0 = x + np.random.normal(scale=scatter*x)
InitializeWithScatter ==
    /\ pc = "scatter"
    /\ \E z \in [FreeIdx -> NoiseUnits] :
        LET x == init_values.X
            sc == [i \in FreeIdx |-> RMul(params.init_scatter, x[i])]
            p0 == VAdd(x, [i \in FreeIdx |-> RMul(RInt(z[i]), sc[i])])
        IN  /\ live' = p0
            /\ IF LiveWithinBounds(live')
               THEN init_values' = ArrayValue(p0) /\ pc' = "setup"
               ELSE UNCHANGED <<init_values, pc>>
    /\ UNCHANGED <<params, arg, given, options, maxiter, restart_data, minimizer,
                   searchStart, xAtSearchEnd, exception, escaped, results,
                   chain, notDriver>>

\* lines 64-147: without an initial vector run() raises ValueError; with one,
\* the options are read, the restart record is taken from a previous result,
\* the start is rescaled and the minimizer is constructed
Setup ==
    /\ pc = "setup"
    /\ IF init_values.kind = "None"
       THEN /\ pc' = "raised"
            /\ escaped' = "ValueError"
            /\ UNCHANGED <<params, init_values, options, maxiter, restart_data,
                           minimizer, searchStart, chain>>
       ELSE LET ro == RunOptions(params, init_values)
                rd == RestartData(init_values)
                x == StartVector(init_values, params.lbfgs_rescale)
                m == NewMinimizer(x, rd)
                capped == params.max_iter.has /\ ~params.test_convergence
            IN  /\ options' = ro.options
                \* params.get returns the mapping that params stores, so
                \* that line 74 writes into params too, or, when params
                \* stores none, a new mapping that params never holds
                /\ params' = IF params.lbfgs_options_stored
                             THEN [params EXCEPT !.options_test_convergence =
                                                     ro.options.test_convergence]
                             ELSE params
                /\ maxiter' = ro.maxiter
                /\ restart_data' = rd
                /\ init_values' = ArrayValue(x)
                /\ minimizer' = m
                /\ searchStart' = m
                /\ chain' = IF rd.set
                            THEN [chain EXCEPT !.ok = /\ chain.ok
                                                      /\ capped
                                                      /\ params.max_iter.v >= rd.iteration]
                            ELSE [ok |-> capped, start |-> init_values.X]
                /\ pc' = "search"
                /\ UNCHANGED escaped
    /\ UNCHANGED <<arg, given, live, xAtSearchEnd, exception, results, notDriver>>

\* one iteration of minimizer.run_nlopt(**options)
SearchStep ==
    /\ pc = "search"
    /\ ~SearchDone(minimizer, options, params.lbfgs_rescale)
    /\ minimizer' = SearchIterate(minimizer, params.lbfgs_rescale)
    /\ UNCHANGED <<pc, params, arg, given, init_values, live, options, maxiter,
                   restart_data, searchStart, xAtSearchEnd, exception, escaped,
                   results, chain, notDriver>>

\* run_nlopt returns: the search converged or reached its iteration cap
SearchReturn ==
    /\ pc = "search"
    /\ SearchDone(minimizer, options, params.lbfgs_rescale)
    /\ minimizer' = [minimizer EXCEPT
                        !.status = SearchStatus(minimizer, params.lbfgs_rescale)]
    /\ xAtSearchEnd' = minimizer.X
    /\ pc' = "extract"
    /\ UNCHANGED <<params, arg, given, init_values, live, options, maxiter,
                   restart_data, searchStart, exception, escaped, results,
                   chain, notDriver>>

\* a wrong handler: without the except clause of line 152 an interrupt, which
\* is no Exception, leaves run()
CaughtWithoutInterruptClause(kind) ==
    IF kind = "Exception"
    THEN [exception |-> kind, escaped |-> "None", pc |-> "extract"]
    ELSE [exception |-> "None", escaped |-> kind, pc |-> "raised"]

\* what run_nlopt can raise: an interrupt, an Exception (of any subclass), or
\* a BaseException that is neither, such as SystemExit or GeneratorExit, for
\* which SystemExit stands
RaisedKinds == {"KeyboardInterrupt", "Exception", "SystemExit"}

\* lines 149-157, the try statement: an interrupt and an Exception are caught
\* and kept in the local exception; a BaseException that is neither matches
\* no except clause and leaves run()
Caught(kind) ==
    IF kind \in {"KeyboardInterrupt", "Exception"}
    THEN [exception |-> kind, escaped |-> "None", pc |-> "extract"]
    ELSE [exception |-> "None", escaped |-> kind, pc |-> "raised"]

\* run_nlopt raises, before or after any iteration: an external interrupt, a
\* fault of the objective, the gradient or the search, or an exit request
SearchRaise ==
    /\ pc = "search"
    /\ \E kind \in RaisedKinds :
        LET c == Caught(kind)
        IN  /\ exception' = c.exception
            /\ escaped' = c.escaped
            /\ pc' = c.pc
    /\ xAtSearchEnd' = minimizer.X
    /\ chain' = [chain EXCEPT !.ok = FALSE]
    /\ UNCHANGED <<params, arg, given, init_values, live, options, maxiter,
                   restart_data, minimizer, searchStart, results, notDriver>>

\* a wrong extraction: the vector is scaled once more instead of unscaled
ExtractStateRescaled(d, scaling) ==
    IF scaling THEN [d EXCEPT !.X = scale(d.X, ParamLocs, ParamScales)] ELSE d

\* lines 166-169: d = minimizer.data, its vector put back in physical units
ExtractState(d, scaling) ==
    IF scaling THEN [d EXCEPT !.X = inverse_scale(d.X, ParamLocs, ParamScales)]
    ELSE d

\* wrong results: an interrupted search yields no results object
ReturnedResultsOnSuccessOnly(exc, d) ==
    IF exc = "None" THEN LBFGSResults(d) ELSE NoneValue

\* lines 182-184: the results object, or None
ReturnedResults(exc, d) ==
    IF exc = "None" \/ exc = "KeyboardInterrupt" THEN LBFGSResults(d)
    ELSE NoneValue

\* lines 159-185: result extraction and return of (results, exception)
Extract ==
    /\ pc = "extract"
    /\ LET d == ExtractState(minimizer, params.lbfgs_rescale)
       IN  /\ minimizer' = d
           /\ results' = ReturnedResults(exception, d)
    /\ pc' = "returned"
    /\ UNCHANGED <<params, arg, given, init_values, live, options, maxiter,
                   restart_data, searchStart, xAtSearchEnd, exception, escaped,
                   chain, notDriver>>

NextDriver ==
    \/ Call
    \/ InitializeFromPrior
    \/ InitializeWithScatter
    \/ Setup
    \/ SearchStep
    \/ SearchReturn
    \/ SearchRaise
    \/ Extract

vars == <<scaleVars, paramVars, pipeVars, driverVars, applyVars, preserveVars>>

----------------------------------------------------------------------------
(* The specifications.                                                     *)

Init ==
    InitDriver /\ ScaleIdle /\ ParamsIdle /\ PipeIdle /\ ApplyIdle /\ PreserveIdle
Next == NextDriver
Spec == Init /\ [][Next]_vars

InitScaleSpec ==
    InitScale /\ ParamsIdle /\ PipeIdle /\ DriverIdle /\ ApplyIdle /\ PreserveIdle
SpecScale == InitScaleSpec /\ [][NextScale]_vars

InitParamsSpec ==
    InitParams /\ ScaleIdle /\ PipeIdle /\ DriverIdle /\ ApplyIdle /\ PreserveIdle
SpecParams == InitParamsSpec /\ [][NextParams]_vars

InitPipeSpec ==
    InitPipe /\ ScaleIdle /\ ParamsIdle /\ DriverIdle /\ ApplyIdle /\ PreserveIdle
SpecPipe == InitPipeSpec /\ [][NextPipe]_vars

InitApplySpec ==
    InitApply /\ ScaleIdle /\ ParamsIdle /\ PipeIdle /\ DriverIdle /\ PreserveIdle
SpecApply == InitApplySpec /\ [][NextApply]_vars

InitPreserveSpec ==
    InitPreserve /\ ScaleIdle /\ ParamsIdle /\ PipeIdle /\ DriverIdle /\ ApplyIdle
SpecPreserve == InitPreserveSpec /\ [][NextPreserve]_vars

----------------------------------------------------------------------------
(* The claims.                                                             *)

\* C9: scale and inverse_scale are an inverse pair: after scale then
\* inverse_scale, and after inverse_scale then scale, the vector is the one
\* that was put in, for every locs and every nonzero scales.
ScaleRoundTrip ==
    sStage \in {"scale;inverse_scale", "inverse_scale;scale"} => sOut = sIn

\* a round trip has been made through a transform that moved the vector
ScaleRoundTripWitness ==
    /\ sStage = "scale;inverse_scale"
    /\ sMid # sIn
    /\ sScales[1] # RInt(1)
    /\ sLocs[2] # RInt(0)
    /\ sOut = sIn

\* whether the call in progress perturbs its init_values with scatter
ScatterRequested ==
    /\ params.init_from \in {"fiducial", "result"}
    /\ RLt(RInt(0), params.init_scatter)

\* C1 as claimed: no exception ever escapes run().
NoExceptionEscapesRun == pc # "raised" /\ escaped = "None"

\* C1, amended: an interrupt and every Exception that the search raises are
\* caught and run() returns its (results, exception) pair; the exceptions
\* that do leave run() are those raised before the search by a call that has
\* no initial vector (ValueError for init_values None, TypeError when scatter
\* is asked for and init_values is no array, both only when init_from is not
\* 'prior'), and what the search raises that is neither an interrupt nor an
\* Exception.
OnlyUncaughtKindsEscapeRun ==
    /\ pc = "raised" =>
          \/ /\ escaped \in {"ValueError", "TypeError"}
             /\ params.init_from # "prior"
             /\ arg.kind # "array"
             /\ escaped = "ValueError" <=> (arg.kind = "None" /\ ~ScatterRequested)
          \/ /\ escaped = "SystemExit"
             /\ exception = "None"
             /\ init_values.kind = "array"
    /\ pc # "raised" => escaped = "None"
    /\ pc = "returned" =>
          /\ exception \in {"None", "KeyboardInterrupt", "Exception"}
          /\ results.kind \in {"None", "results"}

\* the search raised an exception that is no interrupt, and run() returned
SearchFaultReturnedWitness ==
    /\ pc = "returned"
    /\ exception = "Exception"
    /\ escaped = "None"
    /\ minimizer.iteration >= 1

\* C2: run() returns a results object exactly when the search raised nothing
\* or an interrupt; after any other exception it returns (None, exception),
\* and after an interrupt the results hold the minimizer's state as the
\* interrupt found it, next to the interrupt.
ResultsIffNoFaultOrInterrupt ==
    pc = "returned" =>
        /\ IsResults(results) <=> exception \in {"None", "KeyboardInterrupt"}
        /\ ~IsResults(results) => results = NoneValue
        /\ exception = "KeyboardInterrupt" =>
              /\ results.data = minimizer
              /\ results.data.status = StatusNone
              /\ results.X = (IF params.lbfgs_rescale
                              THEN inverse_scale(xAtSearchEnd, ParamLocs, ParamScales)
                              ELSE xAtSearchEnd)

\* an interrupt arrived after an iteration, and run() returned results
InterruptedResultsWitness ==
    /\ pc = "returned"
    /\ exception = "KeyboardInterrupt"
    /\ IsResults(results)
    /\ results.data.iteration >= 1

\* C3: on every exit path of the search the vector stored at result
\* extraction is the search's final vector, put through inverse_scale once
\* when rescaling is on and unchanged when it is off.
StoredVectorUnscaledOnce ==
    pc = "returned" =>
        minimizer.X = (IF params.lbfgs_rescale
                       THEN inverse_scale(xAtSearchEnd, ParamLocs, ParamScales)
                       ELSE xAtSearchEnd)

\* a search that raised a fault left a vector that unscaling changed
UnscaledAfterFaultWitness ==
    /\ pc = "returned"
    /\ params.lbfgs_rescale
    /\ exception = "Exception"
    /\ minimizer.iteration >= 1
    /\ minimizer.X # xAtSearchEnd

\* a restart with a max_iter in force: the case of C4
CappedRestart ==
    /\ pc \in {"search", "extract", "returned"}
    /\ restart_data.set
    /\ params.max_iter.has
    /\ ~options.test_convergence

\* C4 as claimed: on a restart from a result with k iterations, the max_iter
\* handed to the search is N - k.
RestartCapAdjusted ==
    CappedRestart =>
        /\ options.max_iter.has
        /\ options.max_iter.v = params.max_iter.v - restart_data.iteration

\* C4, amended: on such a restart the max_iter handed to the search is N
\* itself; N - k is only the count that the log message reports, and k
\* reaches the search as the iteration counter the minimizer starts with.
RestartCapUnchanged ==
    CappedRestart =>
        /\ options.max_iter = params.max_iter
        /\ maxiter.logged
        /\ maxiter.v = params.max_iter.v - restart_data.iteration
        /\ searchStart.iteration = restart_data.iteration

\* a restart from a result with at least one iteration is about to search
RestartCapWitness ==
    /\ pc = "search"
    /\ CappedRestart
    /\ restart_data.iteration >= 1
    /\ params.max_iter.v > restart_data.iteration
    /\ minimizer = searchStart

\* the search of the call in progress started where the result passed as
\* init_values ended, with that result's counters
StartedFromArg ==
    /\ searchStart.X = (IF params.lbfgs_rescale
                        THEN scale(arg.X, ParamLocs, ParamScales)
                        ELSE arg.X)
    /\ searchStart.iteration = arg.data.iteration
    /\ searchStart.funcalls = arg.data.funcalls

\* C5 as claimed: whenever init_values is a previous result, whatever
\* init_from and init_scatter are, the search starts from that result's
\* vector with that result's counters.
RestartFromAnyResult ==
    (pc \in {"search", "extract", "returned"} /\ IsResults(arg)) => StartedFromArg

\* C5, amended: when init_values is a previous result, init_from is not
\* 'prior' and no scatter is asked for, the search starts from that result's
\* vector (rescaled when rescaling is on) with that result's counters.
RestartFromResultUnlessReinitialized ==
    (/\ pc \in {"search", "extract", "returned"}
     /\ IsResults(arg)
     /\ params.init_from # "prior"
     /\ ~ScatterRequested) => (restart_data.set /\ StartedFromArg)

\* a search is about to start from a result that holds iterations
RestartFromResultWitness ==
    /\ pc = "search"
    /\ IsResults(arg)
    /\ params.init_from = "fiducial"
    /\ params.lbfgs_rescale
    /\ arg.data.iteration >= 1
    /\ arg.data.funcalls > arg.data.iteration
    /\ minimizer = searchStart

\* the state in which one uninterrupted run from the physical vector x ends
UninterruptedRun(x, opts, scaling) ==
    ExtractState(
        RunSearch(LBFGS(StartVector(ArrayValue(x), scaling)), opts, scaling),
        scaling)

\* C6: a run that stops at its iteration cap, restarted from its result with
\* a larger cap, ends with the vector, the iteration count and the
\* function-evaluation count of one uninterrupted run from the same start
\* with the larger cap.
RestartEquivalence ==
    (pc = "returned" /\ restart_data.set /\ chain.ok) =>
        LET u == UninterruptedRun(chain.start, options, params.lbfgs_rescale)
        IN  /\ minimizer.X = u.X
            /\ minimizer.iteration = u.iteration
            /\ minimizer.funcalls = u.funcalls

\* C7: a trial vector with a component outside its declared bounds is
\* rejected as a whole: the call returns False, and the parameter values and
\* the model are after the call what they were before it.
RejectedSetLeavesAllUnchanged ==
    [][(pOp' = "set_free_parameters" /\ ~AllWithinBounds(pTheta')) =>
          /\ pRet' = "False"
          /\ pValues' = pValues
          /\ pModel' = pModel]_paramVars

\* a call was rejected for its second component; its first component was
\* within bounds and is not the value the parameter holds, and the model
\* holds other values than the parameter set, outside the bounds
RejectedSetWitness ==
    /\ pOp = "set_free_parameters"
    /\ pRet = "False"
    /\ within_bounds(1, pTheta[1])
    /\ ~within_bounds(2, pTheta[2])
    /\ pTheta[1] # pValues[1]
    /\ pModel # pValues
    /\ ~AllWithinBounds(pModel)

\* C8: the call has three outcomes: False for a bounds violation, True after
\* the values and the model were updated, RuntimeError when the update of
\* the values or of the model fails for in-bounds values.
SetFreeThreeOutcomes ==
    pOp = "set_free_parameters" =>
        /\ pRet \in {"False", "True", "RuntimeError"}
        /\ pRet = "False" <=> ~AllWithinBounds(pTheta)
        /\ pRet = "True" => (pValues = pTheta /\ pModel = pTheta)

\* the calls of kind op in a log of collaborator calls
EventsOf(log, op) == {i \in DOMAIN log : log[i].op = op}

\* C10: one run of the model callable calls model.power exactly once, and one
\* run of the gradient callable calls the gradient model exactly once, each
\* time on the grid that concatenates the pairs of all the transfers.
SingleEvaluationPerCall ==
    tRan # "none" =>
        LET op == IF tRan = "model" THEN "power" ELSE "gradient"
            other == IF tRan = "model" THEN "gradient" ELSE "power"
            fullk == Concatenate([i \in DOMAIN tTransfers |-> tTransfers[i].flatk])
            fullmu == Concatenate([i \in DOMAIN tTransfers |-> tTransfers[i].flatmu])
        IN  /\ Cardinality(EventsOf(tLog, op)) = 1
            /\ EventsOf(tLog, other) = {}
            /\ \A i \in EventsOf(tLog, op) : tLog[i].k = fullk /\ tLog[i].mu = fullmu

\* the model callable has run over two transfers of two pairs each, for two
\* statistics
SingleEvaluationModelWitness ==
    /\ tRan = "model"
    /\ Len(tTransfers) = 2 /\ tStats = 2
    /\ \A i \in DOMAIN tTransfers : Len(tTransfers[i].flatk) = 2
    /\ Cardinality(EventsOf(tLog, "transfer")) = 2
    /\ Cardinality(EventsOf(tLog, "power")) = 1

\* the statistics of the manifest that stat_ids requests, in manifest order,
\* and the statistics of the segments of a returned vector, in vector order
RequestedInManifestOrder ==
    LET requested == {aStatIds[i].name : i \in DOMAIN aStatIds}
        F[i \in 0..Len(aStatistics)] ==
            IF i = 0 THEN <<>>
            ELSE IF aStatistics[i] \in requested
            THEN Append(F[i - 1], aStatistics[i])
            ELSE F[i - 1]
    IN  F[Len(aStatistics)]

SegmentOrder == [i \in DOMAIN aOut.toret |-> aOut.toret[i].stat]

SegmentLengthSum ==
    LET F[i \in 0..Len(aOut.toret)] ==
            IF i = 0 THEN 0 ELSE F[i - 1] + Len(aOut.toret[i].values)
    IN  F[Len(aOut.toret)]

\* C11: the vector that apply_transfers returns is one segment per requested
\* statistic, the segments are in the order of the manifest data.statistics
\* whatever the order of stat_ids and of the transfers, and its length is
\* the sum of the lengths of the segments.
SegmentsInManifestOrder ==
    aOut.kind = "returned" =>
        /\ SegmentOrder = RequestedInManifestOrder
        /\ Len(Concatenate([i \in DOMAIN aOut.toret |-> aOut.toret[i].values]))
              = SegmentLengthSum

\* the statistics of stat_ids that are configured wrongly: bound to more than
\* one bin value with no decorator registered, or with a decorator whose
\* value is not an array
Misconfigured ==
    {i \in DOMAIN aStatIds :
        \/ aDecorator[aStatIds[i].name] = "None" /\ Len(aStatIds[i].binval) > 1
        \/ aDecorator[aStatIds[i].name] = "other"}

\* C13: a call of apply_transfers that meets a statistic bound to several bin
\* values without a decorator, or a final theory value that is not an array,
\* ends with the pipeline configuration error (RuntimeError) whose message
\* names that statistic, and returns no vector.
ConfigurationErrorsNameStatistic ==
    (aOut.kind # "none" /\ Misconfigured # {}) =>
        LET first == CHOOSE i \in Misconfigured : \A j \in Misconfigured : i <= j
        IN  /\ aOut.kind = "RuntimeError"
            /\ aOut.names = {aStatIds[first].name}
            /\ aOut.toret = <<>>

\* what one pass of an initialization loop does
InitializerPass ==
    pc \in {"prior", "scatter"} =>
        \/ /\ pc' = "setup"
           /\ init_values'.kind = "array"
           /\ \A i \in FreeIdx : within_bounds(i, init_values'.X[i])
           /\ live' = init_values'.X
        \/ /\ pc' = pc
           /\ init_values' = init_values
           /\ \E i \in FreeIdx : ~within_bounds(i, live'[i])

\* C12: a pass of InitializeFromPrior or InitializeWithScatter either returns
\* its draw, and then every component of the returned vector is within the
\* bounds of its parameter and the live parameters hold the returned vector,
\* or rejects it, and then the live parameters hold the rejected draw, which
\* violates a bound.
InitializersReturnWithinBounds == [][InitializerPass]_vars

\* InitializeWithScatter has returned a vector that is not the one it was
\* given, after a call whose live parameters held a rejected draw
ScatterReturnedWitness ==
    /\ pc = "setup"
    /\ InitStrategy(params) = "scatter"
    /\ init_values.kind = "array"
    /\ init_values.X # arg.X
    /\ live = init_values.X
    /\ \A i \in FreeIdx : within_bounds(i, live[i])

\* what a step of run() that chooses the initialization, or that checks it,
\* does
StrategyStep ==
    /\ pc \in {"idle", "returned", "raised"} =>
            LET prior == pc' = "prior"
                scatter == pc' = "scatter" \/ (pc' = "raised" /\ escaped' = "TypeError")
                asGiven == pc' = "setup" /\ init_values' = arg'
            IN  /\ prior <=> params'.init_from = "prior"
                /\ scatter <=> /\ params'.init_from \in {"fiducial", "result"}
                               /\ params'.init_scatter # RInt(0)
                /\ asGiven <=> ~(prior \/ scatter)
    /\ pc = "setup" =>
            /\ pc' = "search" <=> init_values.kind # "None"
            /\ pc' # "search" => pc' = "raised" /\ escaped' = "ValueError"
            /\ (pc' = "search" /\ InitStrategy(params) = "given") =>
                   minimizer'.X = StartVector(arg, params.lbfgs_rescale)

\* C14: run() draws from the prior exactly when init_from is 'prior', adds
\* scatter exactly when init_from is 'fiducial' or 'result' and init_scatter
\* is not zero, and otherwise goes on with init_values as they were passed;
\* the search is started only with an initial vector.
InitialVectorSelection == [][StrategyStep]_vars

\* a search was started from the array passed in, although init_scatter is
\* set, because init_from names neither 'fiducial' nor 'result'
GivenDespiteScatterWitness ==
    /\ pc = "search"
    /\ params.init_from = "max-like"
    /\ params.init_scatter # RInt(0)
    /\ arg.kind = "array"
    /\ searchStart.X = StartVector(arg, params.lbfgs_rescale)

\* what the step from the setup to the search hands to the search, if
\* lbfgs_options is passed through
PassedThroughStep ==
    (pc = "setup" /\ pc' = "search") =>
        /\ options'.test_convergence = params.options_test_convergence
        /\ options'.max_iter = params.max_iter

\* C15 as claimed: the test_convergence entry of lbfgs_options and its
\* max_iter entry reach the search as they were given.
OptionsPassedThrough == [][PassedThroughStep]_vars

\* C15: the search receives lbfgs_options' max_iter as given, and as
\* test_convergence the value of the parameter test_convergence, which
\* replaces the entry of lbfgs_options, in the mapping that params stores too
\* when it stores one.
OptionsTestConvergenceFromParams ==
    pc = "search" =>
        /\ options.test_convergence = params.test_convergence
        /\ options.max_iter = params.max_iter
        /\ params.lbfgs_options_stored =>
               params.options_test_convergence = params.test_convergence
        /\ ~params.lbfgs_options_stored => ~params.options_test_convergence

\* a capped search is running although lbfgs_options asked for test_convergence
OptionsOverwrittenWitness ==
    /\ pc = "search"
    /\ given
    /\ ~params.test_convergence
    /\ ~options.test_convergence
    /\ options.max_iter.has
    /\ minimizer.iteration > 0

\* C16: when the context of preserve(theta) has been left, by a body that
\* completed or by a body that raised, the free parameters have the values
\* that were saved on entry.
PreserveRestoresOnEveryExit ==
    gStage \in {"exited", "raised"} => gValues = gSaved

\* C17: the slices of get_kmu_pairs partition the concatenated grid: the
\* first starts at 0, each starts where the one before it ends, the last
\* ends at the length of the grid, slice i is as long as transfer i's
\* flattened k, and the grid read through slice i is transfer i's own
\* flattened k and mu.
SlicesPartitionGrid ==
    tBuilt # {} =>
        LET sl == tGrid.slices
            n == Len(tTransfers)
        IN  /\ Len(sl) = n
            /\ sl[1].start = 0
            /\ \A i \in 2..n : sl[i].start = sl[i - 1].stop
            /\ sl[n].stop = Len(tGrid.k)
            /\ Len(tGrid.mu) = Len(tGrid.k)
            /\ \A i \in 1..n :
                  LET N == Len(tTransfers[i].flatk)
                  IN  /\ sl[i].stop - sl[i].start = N
                      /\ [j \in 1..N |-> tGrid.k[sl[i].start + j]]
                            = tTransfers[i].flatk
                      /\ [j \in 1..N |-> tGrid.mu[sl[i].start + j]]
                            = tTransfers[i].flatmu

\* a grid was built over two different transfers of different lengths, and
\* the second slice starts behind the two pairs of the first
SlicesPartitionWitness ==
    /\ tBuilt # {}
    /\ Len(tTransfers) = 2
    /\ Len(tTransfers[1].flatk) = 2
    /\ Len(tTransfers[2].flatk) = 1
    /\ tTransfers[1].id # tTransfers[2].id
    /\ tGrid.slices[2] = [start |-> 2, stop |-> 3]
    /\ Len(tGrid.k) = 3

\* C18: when theta is within bounds and the values are set but the model's
\* update fails, set_free_parameters raises RuntimeError and leaves the free
\* parameters at theta while the model stays as it was.
ModelFailureLeavesValuesSet ==
    [][(pOp' = "set_free_parameters" /\ pRet' = "RuntimeError") =>
          /\ AllWithinBounds(pTheta')
          /\ pValues' = pTheta'
          /\ pModel' = pModel]_paramVars

\* after a failed update of the model the parameter set holds theta, which
\* are not the values the model holds: it holds values outside the bounds
ModelFailureDisagreeWitness ==
    /\ pOp = "set_free_parameters"
    /\ pRet = "RuntimeError"
    /\ pValues = pTheta
    /\ pModel # pValues
    /\ ~AllWithinBounds(pModel)

====
